---- MODULE Spec2Model ----
(***************************************************************************)
(* WebWeaver (src/src/main.rs): a content-publishing pipeline.             *)
(*                                                                         *)
(* Strings are sequences of one-character strings, so that splitting,      *)
(* slugging, date parsing and path building are computed character by      *)
(* character as the program computes them.  Multi-character literals of    *)
(* the source that are only ever copied (the injected header) are kept as  *)
(* single chunks.                                                          *)
(***************************************************************************)
EXTENDS Integers, Sequences, FiniteSets, TLC

VARIABLES
    \* ---- the run of main ----
    entry,      \* what is run: "main", or a call of "construct_content_filesystem" or "content_file_metadata"
    pc,         \* position: cfg, discover, files_map, metadata, construct, rss, entries, print, done, failed
    argv,       \* argv[1] as an Option: None when argv.len() <= 1
    inputKind,  \* what argv[1] names on disk: "dir", "file" or "missing"
    dirEntries, \* the input directory: file name -> "file" | "dir"
    bodies,     \* the input files' contents: file name -> string
    cfgv,       \* the Cfg record built by cfg()
    paths,      \* Vec<PathBuf> returned by content_file_pathbufs
    idx,        \* files_map: index of the next path of the for loop
    metaMap,    \* BTreeMap<PathBuf, ContentMetaUnit>, as a function on its key set
    todo,       \* construct_content_filesystem: keys of the map not yet iterated
    outFs,      \* output files: path string -> contents
    outDirs,    \* output directories created by create_dir_all
    content,    \* Vec<ContentUnit>
    feed,       \* the items of the channel built by rss_channel, in a 0/1-element sequence
    entries,    \* BTreeMap<u32, Vec<ContentMetaUnit>> built by entries_map (0/1-element sequence)
    stdout,     \* what println! wrote (0/1-element sequence)
    err,        \* the error main returned, "" when none
    log,        \* history: the per-file steps and artifact steps taken, in order
    \* ---- a call of content_file_metadata / friendly_filename ----
    ppc,        \* "call", "parsed", "reslugged"
    fname,      \* the file name handed to content_file_metadata
    root,       \* content_output_root_path, as a string
    res,        \* its Result
    slug2       \* friendly_filename applied to the record's filesystem_friendly_name

runVars == <<entry, pc, argv, inputKind, dirEntries, bodies, cfgv, paths, idx, metaMap,
             todo, outFs, outDirs, content, feed, entries, stdout, err, log>>
parseVars == <<ppc, fname, root, res, slug2>>
vars == <<runVars, parseVars>>

-----------------------------------------------------------------------------
(* Bounds of the model *)

\* longest tail appended to a date prefix when file names are enumerated
MaxRest == 5
\* most entries of the input directory in a run of main
MaxDir == 2
\* most entries of a metadata map handed to construct_content_filesystem
MaxMap == 3

-----------------------------------------------------------------------------
(* Characters and strings *)

Range(s) == {s[i] : i \in 1..Len(s)}

Lowers == <<"a","b","c","d","e","f","g","h","i","j","k","l","m",
            "n","o","p","q","r","s","t","u","v","w","x","y","z">>
Uppers == <<"A","B","C","D","E","F","G","H","I","J","K","L","M",
            "N","O","P","Q","R","S","T","U","V","W","X","Y","Z">>
DigitChars == <<"0","1","2","3","4","5","6","7","8","9">>

IndexIn(s, c) == CHOOSE i \in 1..Len(s) : s[i] = c

IsDigit(c) == c \in Range(DigitChars)
DigitVal(c) == IndexIn(DigitChars, c) - 1

\* char::is_alphanumeric, on the ASCII characters the model uses
is_alphanumeric(c) == c \in Range(Lowers) \cup Range(Uppers) \cup Range(DigitChars)

\* char::to_ascii_lowercase
to_ascii_lowercase(c) == IF c \in Range(Uppers) THEN Lowers[IndexIn(Uppers, c)] ELSE c

\* char::to_uppercase, on ASCII
to_uppercase(c) == IF c \in Range(Lowers) THEN Uppers[IndexIn(Lowers, c)] ELSE c

\* the byte of an ASCII character: the order of PathBuf keys in a BTreeMap
Ascii(c) ==
    CASE IsDigit(c) -> 48 + DigitVal(c)
      [] c \in Range(Uppers) -> 64 + IndexIn(Uppers, c)
      [] c \in Range(Lowers) -> 96 + IndexIn(Lowers, c)
      [] c = " " -> 32
      [] c = "!" -> 33
      [] c = "," -> 44
      [] c = "-" -> 45
      [] c = "." -> 46
      [] c = "/" -> 47
      [] c = "_" -> 95

\* a < b for two strings, byte by byte (Ord of OsStr / of the last path component)
RECURSIVE StrLess(_, _)
StrLess(a, b) ==
    IF b = <<>> THEN FALSE
    ELSE IF a = <<>> THEN TRUE
    ELSE IF Head(a) = Head(b) THEN StrLess(Tail(a), Tail(b))
    ELSE Ascii(Head(a)) < Ascii(Head(b))

\* all strings over alphabet A of length at most n
RECURSIVE StringsUpTo(_, _)
StringsUpTo(A, n) ==
    IF n = 0 THEN {<<>>}
    ELSE LET shorter == StringsUpTo(A, n - 1)
         IN  shorter \cup {Append(s, c) : s \in shorter, c \in A}

\* positions of character c in s
Positions(s, c) == {i \in 1..Len(s) : s[i] = c}

Min(S) == CHOOSE x \in S : \A y \in S : x <= y
Max(S) == CHOOSE x \in S : \A y \in S : x >= y

\* str::split(c): one piece more than there are separators, empty pieces kept
RECURSIVE Split(_, _)
Split(s, c) ==
    IF Positions(s, c) = {} THEN <<s>>
    ELSE LET p == Min(Positions(s, c))
         IN  <<SubSeq(s, 1, p - 1)>> \o Split(SubSeq(s, p + 1, Len(s)), c)

\* [String]::join(sep)
RECURSIVE Join(_, _)
Join(parts, sep) ==
    IF parts = <<>> THEN <<>>
    ELSE IF Len(parts) = 1 THEN parts[1]
    ELSE parts[1] \o sep \o Join(Tail(parts), sep)

\* str::splitn(2, c): the string itself when c is absent, else the parts
\* before and after the first c
splitn2(s, c) ==
    IF Positions(s, c) = {} THEN <<s>>
    ELSE LET p == Min(Positions(s, c))
         IN  <<SubSeq(s, 1, p - 1), SubSeq(s, p + 1, Len(s))>>

\* decimal digits of a natural number: format!("{}", n)
RECURSIVE NumToStr(_)
NumToStr(n) ==
    IF n < 10 THEN <<DigitChars[n + 1]>>
    ELSE NumToStr(n \div 10) \o <<DigitChars[(n % 10) + 1]>>

\* format!("{:02}", n)
Pad2(n) == IF n < 10 THEN <<"0">> \o NumToStr(n) ELSE NumToStr(n)

\* format!("{:04}", n)
Pad4(n) ==
    IF n < 10 THEN <<"0", "0", "0">> \o NumToStr(n)
    ELSE IF n < 100 THEN <<"0", "0">> \o NumToStr(n)
    ELSE IF n < 1000 THEN <<"0">> \o NumToStr(n)
    ELSE NumToStr(n)

\* a date written as YYYY-MM-DD
FormatDate(d) == Pad4(d.year) \o <<"-">> \o Pad2(d.month) \o <<"-">> \o Pad2(d.day)

\* value of a string of digits
RECURSIVE StrToNum(_)
StrToNum(s) ==
    IF s = <<>> THEN 0
    ELSE 10 * StrToNum(SubSeq(s, 1, Len(s) - 1)) + DigitVal(s[Len(s)])

Some(v) == [some |-> TRUE, v |-> v]
None == [some |-> FALSE, v |-> <<>>]
Ok(u) == [ok |-> TRUE, unit |-> u]
Err(e) == [ok |-> FALSE, err |-> e]

-----------------------------------------------------------------------------
(* chrono::NaiveDate *)

IsLeap(y) == (y % 4 = 0 /\ y % 100 # 0) \/ y % 400 = 0

DaysIn(y, m) ==
    IF m = 2 THEN (IF IsLeap(y) THEN 29 ELSE 28)
    ELSE IF m \in {4, 6, 9, 11} THEN 30 ELSE 31

\* length of the run of digits s starts with, at most max long
DigitPrefixLen(s, max) ==
    LET lim == IF Len(s) < max THEN Len(s) ELSE max
    IN  Max({k \in 0..lim : \A i \in 1..k : IsDigit(s[i])})

\* NaiveDate::parse_from_str(s, "%Y-%m-%d") on unsigned input without blanks:
\* 1 to 4 digits, '-', 1 or 2 digits, '-', 1 or 2 digits, nothing after, and
\* the three numbers name a day of the calendar
parse_from_str(s) ==
    LET yl == DigitPrefixLen(s, 4)
        s1 == SubSeq(s, yl + 1, Len(s))
        s2 == SubSeq(s1, 2, Len(s1))
        ml == DigitPrefixLen(s2, 2)
        s3 == SubSeq(s2, ml + 1, Len(s2))
        s4 == SubSeq(s3, 2, Len(s3))
        dl == DigitPrefixLen(s4, 2)
        y  == StrToNum(SubSeq(s, 1, yl))
        m  == StrToNum(SubSeq(s2, 1, ml))
        d  == StrToNum(SubSeq(s4, 1, dl))
    IN  IF /\ yl > 0 /\ s1 # <<>> /\ s1[1] = "-"
           /\ ml > 0 /\ s3 # <<>> /\ s3[1] = "-"
           /\ dl > 0 /\ dl = Len(s4)
           /\ m \in 1..12 /\ d \in 1..DaysIn(y, m)
        THEN Ok([year |-> y, month |-> m, day |-> d])
        ELSE Err("chrono::ParseError")

\* Datelike::year_ce().1: the year number within its era
year_ce(date) == IF date.year < 1 THEN 1 - date.year ELSE date.year

\* Ord of NaiveDate
DateLess(a, b) ==
    \/ a.year < b.year
    \/ a.year = b.year /\ a.month < b.month
    \/ a.year = b.year /\ a.month = b.month /\ a.day < b.day

-----------------------------------------------------------------------------
(* Path::file_stem and Path::extension of a file name *)

\* the name split at its first '.' instead of its last
split_file_at_first_dot(file) ==
    IF file = <<".", ".">> THEN <<Some(file), None>>
    ELSE IF Positions(file, ".") = {} THEN <<Some(file), None>>
    ELSE LET p == Min(Positions(file, "."))
             before == SubSeq(file, 1, p - 1)
             after == SubSeq(file, p + 1, Len(file))
         IN  IF before = <<>> THEN <<Some(file), None>>
             ELSE <<Some(before), Some(after)>>

\* std::path::rsplit_file_at_dot: <<file_stem, extension>>
rsplit_file_at_dot(file) ==
    IF file = <<".", ".">> THEN <<Some(file), None>>
    ELSE IF Positions(file, ".") = {} THEN <<Some(file), None>>
    ELSE LET p == Max(Positions(file, "."))
             before == SubSeq(file, 1, p - 1)
             after == SubSeq(file, p + 1, Len(file))
         IN  IF before = <<>> THEN <<Some(file), None>>
             ELSE <<Some(before), Some(after)>>

-----------------------------------------------------------------------------
(* friendly_filename *)

\* a slug routine that keeps '_' as well as alphanumerics
friendly_filename_keep_underscore(name) ==
    LET kept == SelectSeq(name, LAMBDA c : is_alphanumeric(c) \/ c = " " \/ c = "_")
    IN  [i \in 1..Len(kept) |->
            IF kept[i] = " " THEN "_" ELSE to_ascii_lowercase(kept[i])]

\* alphanumerics lowercased and kept, ' ' becomes '_', everything else dropped
friendly_filename(name) ==
    LET kept == SelectSeq(name, LAMBDA c : is_alphanumeric(c) \/ c = " ")
    IN  [i \in 1..Len(kept) |->
            IF kept[i] = " " THEN "_" ELSE to_ascii_lowercase(kept[i])]

-----------------------------------------------------------------------------
(* content_file_metadata *)

\* the split of the stem, made at the last '_' instead of the first
stem_split_last(file_stem) ==
    IF Positions(file_stem, "_") = {} THEN <<file_stem>>
    ELSE LET p == Max(Positions(file_stem, "_"))
         IN  <<SubSeq(file_stem, 1, p - 1), SubSeq(file_stem, p + 1, Len(file_stem))>>

\* file_stem.splitn(2, '_')
stem_split(file_stem) == splitn2(file_stem, "_")

\* format!("{}/{:02}/{:02}", year, month, day) without the zero padding
year_month_day_unpadded(date) ==
    NumToStr(year_ce(date)) \o <<"/">> \o NumToStr(date.month) \o <<"/">> \o NumToStr(date.day)

\* format!("{}/{:02}/{:02}", year, month, day)
year_month_day(date) ==
    NumToStr(year_ce(date)) \o <<"/">> \o Pad2(date.month) \o <<"/">> \o Pad2(date.day)

\* pathbuf_filename_get_err
FilenameErr == "error getting PathBuf filename"

\* parse_content_meta_data_err
Malformed == "error parsing content file meta data: splitn 2 '_' did not return len==2."

content_file_metadata(file, content_output_root_path) ==
    LET se == rsplit_file_at_dot(file)
        file_stem == se[1]
        file_ext == se[2]
    IN  IF ~file_stem.some THEN Err(FilenameErr)
        ELSE IF ~file_ext.some THEN Err(FilenameErr)
        ELSE LET split == stem_split(file_stem.v)
             IN  IF Len(split) # 2
                 THEN Err(Malformed)
                 ELSE LET parsed == parse_from_str(split[1])
                      IN  IF ~parsed.ok THEN Err(parsed.err)
                          ELSE LET date == parsed.unit
                                   name == split[2]
                               IN  Ok([date |-> date,
                                       name |-> name,
                                       filesystem_friendly_name |-> friendly_filename(name),
                                       file_ext |-> file_ext.v,
                                       categories |-> Split(content_output_root_path, "/"),
                                       path |-> content_output_root_path \o <<"/">>
                                                   \o year_month_day(date)])

-----------------------------------------------------------------------------
(* cfg *)

DotContent == <<".","c","o","n","t","e","n","t">>

NoArgErr == "specify content path in first argument."
MissingAnchorErr == "error: did not find root content directory named .content which is a prerequisite."
NotExistErr == "input content path (argv[0]) does not exist."
NotDirErr == "input content path is not a directory."

\* Path::components: the pieces between '/', empty pieces and inner "." pieces
\* dropped, a leading '/' or a leading "." kept as a component of its own
components(p) ==
    LET pieces == Split(p, "/")
        normal == SelectSeq(pieces, LAMBDA c : c # <<>> /\ c # <<".">>)
        lead == IF p # <<>> /\ p[1] = "/" THEN <<<<"/">>>>
                ELSE IF pieces[1] = <<".">> THEN <<<<".">>>>
                ELSE <<>>
    IN  lead \o normal

\* str::trim_start_matches('.')
RECURSIVE trim_start_dots(_)
trim_start_dots(s) ==
    IF s # <<>> /\ s[1] = "." THEN trim_start_dots(Tail(s)) ELSE s

\* &components[content_index + 1..]
after_content_of(comps, content_index) == SubSeq(comps, content_index + 1, Len(comps))

\* cfg(): arg is argv[1] as an Option, kind is what that path names on disk
cfg(arg, kind) ==
    IF ~arg.some THEN Err(NoArgErr)
    ELSE LET comps == components(arg.v)
         IN  IF Positions(comps, DotContent) = {} THEN Err(MissingAnchorErr)
             ELSE LET content_index == Min(Positions(comps, DotContent))
                      after_content == after_content_of(comps, content_index)
                      author ==
                          IF after_content # <<>> /\ after_content[1][1] = "."
                          THEN Some(trim_start_dots(after_content[1]))
                          ELSE None
                      after_path == Join(after_content, <<"/">>)
                  IN  IF kind = "missing" THEN Err(NotExistErr)
                      ELSE IF kind # "dir" THEN Err(NotDirErr)
                      ELSE Ok([input_content_root_path |-> arg.v,
                               output_content_root_path |-> after_path,
                               author |-> author,
                               category |-> Join(after_content, <<"/">>)])

-----------------------------------------------------------------------------
(* BTreeMap<PathBuf, ContentMetaUnit>: a function on its key set.  All keys  *)
(* of a run share the input directory, so a key is ordered by its file name. *)

EmptyMap == [k \in {} |-> k]

Insert(m, k, v) == [x \in DOMAIN m \cup {k} |-> IF x = k THEN v ELSE m[x]]

\* the greatest key of a set of keys
last_key(keys) == CHOOSE k \in keys : \A o \in keys : o = k \/ StrLess(o, k)

\* the least key of a set of keys: the next one a BTreeMap iteration yields
first_key(keys) == CHOOSE k \in keys : \A o \in keys : o = k \/ StrLess(k, o)

\* the keys in iteration order
RECURSIVE KeysInOrder(_)
KeysInOrder(keys) ==
    IF keys = {} THEN <<>>
    ELSE <<first_key(keys)>> \o KeysInOrder(keys \ {first_key(keys)})

-----------------------------------------------------------------------------
(* entries_map *)

\* the units left in the order they were pushed
unsorted(units) == units

\* units.sort_by(|a, b| b.date.cmp(&a.date)): a stable sort, latest date first
RECURSIVE sort_by_date_desc(_)
sort_by_date_desc(units) ==
    IF units = <<>> THEN <<>>
    ELSE LET u == units[Len(units)]
             front == sort_by_date_desc(SubSeq(units, 1, Len(units) - 1))
             \* u goes after every unit whose date is not earlier than its own
             n == Cardinality({i \in 1..Len(front) : ~DateLess(front[i].date, u.date)})
         IN  SubSeq(front, 1, n) \o <<u>> \o SubSeq(front, n + 1, Len(front))

entries_map(content_files_meta_data) ==
    LET keys == KeysInOrder(DOMAIN content_files_meta_data)
        metas == [i \in 1..Len(keys) |-> content_files_meta_data[keys[i]]]
        years == {year_ce(metas[i].date) : i \in 1..Len(metas)}
    IN  [y \in years |->
            sort_by_date_desc(SelectSeq(metas, LAMBDA m : year_ce(m.date) = y))]

-----------------------------------------------------------------------------
(* content_unit_contents, title_case, index_contents, rss_channel *)

Header == <<":base-path: ../../../..\n\ninclude::{base-path}/head.adoc[]\n\n== ">>

content_unit_contents(title, body) == Header \o title \o <<"\n\n">> \o body

title_case(input) ==
    LET words == SelectSeq(Split(input, " "), LAMBDA w : w # <<>>)
        cased == [i \in 1..Len(words) |-> <<to_uppercase(words[i][1])>> \o Tail(words[i])]
    IN  Join(cased, <<" ">>)

\* format!("{}/{}.{}", meta.path, meta.filesystem_friendly_name, meta.file_ext)
content_file_output_path(meta) ==
    meta.path \o <<"/">> \o meta.filesystem_friendly_name \o <<".">> \o meta.file_ext

\* the years of a year index, greatest first
RECURSIVE YearsDesc(_)
YearsDesc(ys) ==
    IF ys = {} THEN <<>> ELSE <<Max(ys)>> \o YearsDesc(ys \ {Max(ys)})

\* the index document, one record per line written
index_contents(category, year_index) ==
    LET ys == YearsDesc(DOMAIN year_index)
        section(y) ==
            <<[kind |-> "year", year |-> y]>> \o
            [i \in 1..Len(year_index[y]) |->
                [kind |-> "entry",
                 xref |-> content_file_output_path(year_index[y][i]),
                 name |-> year_index[y][i].name,
                 date |-> year_index[y][i].date]]
        RECURSIVE sections(_)
        sections(i) == IF i > Len(ys) THEN <<>> ELSE section(ys[i]) \o sections(i + 1)
    IN  <<[kind |-> "title", text |-> title_case(category)]>> \o sections(1)

\* the items of the channel; the item's date is the unit's date at local
\* midnight, which is taken to exist
rss_channel(units) ==
    [i \in 1..Len(units) |->
        [title |-> units[i].meta.name,
         description |-> units[i].meta.name,
         content |-> units[i].contents,
         pub_date |-> units[i].meta.date,
         link |-> units[i].meta.path]]

-----------------------------------------------------------------------------
(* The run of main *)

DupErr == "unexpected duplicate content file."
ListErr == "read_dir error"
ReadErr == "read_to_string error"
MkdirErr == "create_dir_all error"
WriteErr == "write error"

ContentDir == <<"c","o","n","t","e","n","t","/">>

FileName(d, n, e) == FormatDate(d) \o <<"_">> \o n \o <<".">> \o e

Date(y, m, d) == [year |-> y, month |-> m, day |-> d]

Adoc == <<"a","d","o","c">>
Txt == <<"t","x","t">>
MyPost == <<"M","y"," ","P","o","s","t">>
MyPostPunct == <<"M","y",","," ","P","o","s","t","!">>

\* names that follow the grammar <YYYY-MM-DD>_<name>.<ext>
WellFormedFiles ==
    {FileName(Date(2023, 5, 1), <<"H","i"," ","A","l">>, Adoc),
     FileName(Date(2023, 1, 10), MyPostPunct, Adoc),
     FileName(Date(2023, 1, 10), MyPost, Adoc),
     FileName(Date(2023, 1, 11), MyPost, Adoc),
     FileName(Date(2022, 12, 31), <<"O","l","d">>, Txt)}

\* names that do not: no '_', and a thirteenth month
BadFiles ==
    {<<"n","o","t","e","s",".","t","x","t">>,
     <<"2","0","2","3","-","1","3","-","0","1","_","x",".","t","x","t">>}

SubDirs == {<<"d","r","a","f","t","s">>}

Bodies == {<<"x">>, <<"y">>}

ArgvChoices ==
    {<<"h","/">> \o DotContent \o <<"/","b","l","o","g">>,
     DotContent \o <<"/",".","a","l","/","b","l","o","g">>,
     DotContent \o <<"/","b","l","o","g","/","t">>,
     <<"h","/","b","l","o","g">>,
     DotContent}

SubsetsUpTo(S, n) == {T \in SUBSET S : Cardinality(T) <= n}

\* all orders of a finite set
RECURSIVE Orders(_)
Orders(S) ==
    IF S = {} THEN {<<>>}
    ELSE UNION {{<<x>> \o o : o \in Orders(S \ {x})} : x \in S}

Files(dir) == {f \in DOMAIN dir : dir[f] = "file"}

ParseIdle ==
    /\ ppc = "idle" /\ fname = <<>> /\ root = <<>> /\ res = Err("") /\ slug2 = <<>>

RunStart ==
    /\ idx = 1 /\ outFs = EmptyMap /\ outDirs = {} /\ content = <<>>
    /\ feed = <<>> /\ entries = <<>> /\ stdout = <<>> /\ err = "" /\ log = <<>>

\* a process start: any argv, any input directory
InitMain ==
    /\ entry = "main"
    /\ pc = "cfg"
    /\ argv \in {None} \cup {Some(a) : a \in ArgvChoices}
    /\ inputKind \in {"dir", "file", "missing"}
    /\ \E S \in SubsetsUpTo(WellFormedFiles \cup BadFiles \cup SubDirs, MaxDir) :
          /\ inputKind # "dir" => S = {}
          /\ dirEntries = [f \in S |-> IF f \in SubDirs THEN "dir" ELSE "file"]
    /\ bodies \in [Files(dirEntries) -> Bodies]
    /\ cfgv = Err("")
    /\ paths = <<>>
    /\ metaMap = EmptyMap
    /\ todo = {}
    /\ RunStart
    /\ ParseIdle

\* a call of construct_content_filesystem (and the rest of main after it) on
\* a map of parsed metadata of well-formed files
InitConstruct ==
    /\ entry = "construct_content_filesystem"
    /\ pc = "construct"
    /\ argv \in {Some(a) : a \in ArgvChoices}
    /\ inputKind = "dir"
    /\ cfgv = cfg(argv, inputKind)
    /\ cfgv.ok
    /\ \E S \in SubsetsUpTo(WellFormedFiles, MaxMap) :
          /\ dirEntries = [f \in S |-> "file"]
          /\ metaMap = [f \in S |->
                content_file_metadata(f, cfgv.unit.output_content_root_path).unit]
          /\ todo = S
    /\ bodies \in [Files(dirEntries) -> Bodies]
    /\ paths = <<>>
    /\ RunStart
    /\ ParseIdle

Init == InitMain \/ InitConstruct

Event(e, f) == [ev |-> e, file |-> f]

Fail(e) == /\ err' = e
           /\ pc' = "failed"

\* main line 415: let cfg = cfg()?
CfgStep ==
    /\ pc = "cfg"
    /\ cfgv' = cfg(argv, inputKind)
    /\ IF cfgv'.ok THEN pc' = "discover" /\ err' = err
       ELSE Fail(cfgv'.err)
    /\ UNCHANGED <<entry, argv, inputKind, dirEntries, bodies, paths, idx, metaMap, todo,
                   outFs, outDirs, content, feed, entries, stdout, log, parseVars>>

\* main line 416: content_file_pathbufs; read_dir yields the entries in any
\* order, and the listing or one of its entries may fail
DiscoverStep ==
    /\ pc = "discover"
    /\ \/ /\ paths' \in Orders(Files(dirEntries))
          /\ pc' = "files_map"
          /\ err' = err
       \/ /\ Fail(ListErr)
          /\ paths' = paths
    /\ UNCHANGED <<entry, argv, inputKind, dirEntries, bodies, cfgv, idx, metaMap, todo,
                   outFs, outDirs, content, feed, entries, stdout, log, parseVars>>

\* files_map: one turn of the for loop.  insert returns None when the key was
\* absent, and that is the case the code answers with the duplicate error
FilesMapStep ==
    /\ pc = "files_map"
    /\ idx <= Len(paths)
    /\ LET path_to_content_file == paths[idx]
           meta == content_file_metadata(path_to_content_file,
                                         cfgv.unit.output_content_root_path)
       IN  IF ~meta.ok
           THEN /\ Fail(meta.err)
                /\ metaMap' = EmptyMap
                /\ idx' = idx
                /\ log' = Append(log, Event("parse_err", path_to_content_file))
           ELSE IF path_to_content_file \notin DOMAIN metaMap
           THEN /\ Fail(DupErr)
                /\ metaMap' = EmptyMap
                /\ idx' = idx
                /\ log' = Append(log, Event("dup_err", path_to_content_file))
           ELSE /\ metaMap' = Insert(metaMap, path_to_content_file, meta.unit)
                /\ idx' = idx + 1
                /\ log' = Append(log, Event("parse", path_to_content_file))
                /\ UNCHANGED <<pc, err>>
    /\ UNCHANGED <<entry, argv, inputKind, dirEntries, bodies, cfgv, paths, todo,
                   outFs, outDirs, content, feed, entries, stdout, parseVars>>

\* files_map: the loop is over, Ok(map); main goes on to line 419
FilesMapDone ==
    /\ pc = "files_map"
    /\ idx > Len(paths)
    /\ pc' = "construct"
    /\ todo' = DOMAIN metaMap
    /\ UNCHANGED <<entry, argv, inputKind, dirEntries, bodies, cfgv, paths, idx, metaMap,
                   outFs, outDirs, content, feed, entries, stdout, err, log, parseVars>>

\* one turn of the loop that goes on to the next entry after an I/O error
ConstructStepContinue ==
    /\ pc = "construct"
    /\ todo # {}
    /\ LET k == first_key(todo)
           meta == metaMap[k]
           contents == content_unit_contents(meta.name, bodies[k])
           path == ContentDir \o content_file_output_path(meta)
       IN  \/ /\ outFs' = Insert(outFs, path, contents)
              /\ content' = Append(content, [meta |-> meta, contents |-> contents])
              /\ log' = Append(log, Event("write", k))
              /\ err' = err
           \/ /\ err' = ReadErr
              /\ log' = Append(log, Event("io_err", k))
              /\ UNCHANGED <<outFs, content>>
    /\ todo' = todo \ {first_key(todo)}
    /\ outDirs' = outDirs \cup {ContentDir \o metaMap[first_key(todo)].path}
    /\ UNCHANGED <<entry, pc, argv, inputKind, dirEntries, bodies, cfgv, paths, idx, metaMap,
                   feed, entries, stdout, parseVars>>

\* construct_content_filesystem: one turn of the for loop over the map, in
\* key order: read the source, create the directory, write the file, push
\* the unit.  Each of the three I/O calls may fail; a write that fails after
\* the file was created leaves it truncated
ConstructStep ==
    /\ pc = "construct"
    /\ todo # {}
    /\ LET k == first_key(todo)
           meta == metaMap[k]
           contents == content_unit_contents(meta.name, bodies[k])
           dir == ContentDir \o meta.path
           path == ContentDir \o content_file_output_path(meta)
       IN  \/ /\ outDirs' = outDirs \cup {dir}
              /\ outFs' = Insert(outFs, path, contents)
              /\ content' = Append(content, [meta |-> meta, contents |-> contents])
              /\ todo' = todo \ {k}
              /\ log' = Append(log, Event("write", k))
              /\ UNCHANGED <<pc, err>>
           \/ /\ Fail(ReadErr)
              /\ log' = Append(log, Event("io_err", k))
              /\ UNCHANGED <<outDirs, outFs, content, todo>>
           \/ /\ Fail(MkdirErr)
              /\ log' = Append(log, Event("io_err", k))
              /\ UNCHANGED <<outDirs, outFs, content, todo>>
           \/ /\ Fail(WriteErr)
              /\ log' = Append(log, Event("io_err", k))
              /\ outDirs' = outDirs \cup {dir}
              /\ \/ outFs' = outFs
                 \/ outFs' = Insert(outFs, path, <<>>)
              /\ UNCHANGED <<content, todo>>
    /\ UNCHANGED <<entry, argv, inputKind, dirEntries, bodies, cfgv, paths, idx, metaMap,
                   feed, entries, stdout, parseVars>>

\* construct_content_filesystem: the loop is over, Ok(content)
ConstructDone ==
    /\ pc = "construct"
    /\ todo = {}
    /\ pc' = "rss"
    /\ UNCHANGED <<entry, argv, inputKind, dirEntries, bodies, cfgv, paths, idx, metaMap,
                   todo, outFs, outDirs, content, feed, entries, stdout, err, log, parseVars>>

\* main lines 421-431: the feed is assembled from the units
RssStep ==
    /\ pc = "rss"
    /\ feed' = <<rss_channel(content)>>
    /\ log' = Append(log, Event("feed", <<>>))
    /\ pc' = "entries"
    /\ UNCHANGED <<entry, argv, inputKind, dirEntries, bodies, cfgv, paths, idx, metaMap,
                   todo, outFs, outDirs, content, entries, stdout, err, parseVars>>

\* main line 433: entries_map
EntriesStep ==
    /\ pc = "entries"
    /\ entries' = <<entries_map(metaMap)>>
    /\ pc' = "print"
    /\ UNCHANGED <<entry, argv, inputKind, dirEntries, bodies, cfgv, paths, idx, metaMap,
                   todo, outFs, outDirs, content, feed, stdout, err, log, parseVars>>

\* main lines 434-438: the index is rendered and printed
PrintStep ==
    /\ pc = "print"
    /\ stdout' = <<index_contents(cfgv.unit.category, entries[1])>>
    /\ log' = Append(log, Event("print", <<>>))
    /\ pc' = "done"
    /\ UNCHANGED <<entry, argv, inputKind, dirEntries, bodies, cfgv, paths, idx, metaMap,
                   todo, outFs, outDirs, content, feed, entries, err, parseVars>>

Next ==
    \/ CfgStep
    \/ DiscoverStep
    \/ FilesMapStep
    \/ FilesMapDone
    \/ ConstructStep
    \/ ConstructDone
    \/ RssStep
    \/ EntriesStep
    \/ PrintStep

Spec == Init /\ [][Next]_vars

-----------------------------------------------------------------------------
(* Claims about the run (Spec) *)

Terminated == pc \in {"done", "failed"}

\* the run met no failure of its environment: arguments, listing, file I/O
NoEnvFailure ==
    err \notin {NoArgErr, MissingAnchorErr, NotExistErr, NotDirErr,
                ListErr, ReadErr, MkdirErr, WriteErr}

\* <YYYY-MM-DD>_<name>.<ext> with a date of the calendar
WellFormed(f) == f \in WellFormedFiles

\* <C>/<year>/<month:02>/<day:02>/<slug(name)>.<ext> under the output root,
\* and the content header, "== <name>", body, for the file named <d>_<n>.<e>
ExpectedPath(lineage, d, n, e) ==
    ContentDir \o
    Join(lineage \o <<NumToStr(d.year), Pad2(d.month), Pad2(d.day)>>, <<"/">>)
        \o <<"/">> \o friendly_filename(n) \o <<".">> \o e
ExpectedContents(n, body) == Header \o n \o <<"\n\n">> \o body

FileDate(f) == parse_from_str(SubSeq(f, 1, Min(Positions(f, "_")) - 1)).unit
FileTitle(f) == SubSeq(f, Min(Positions(f, "_")) + 1, Max(Positions(f, ".")) - 1)
FileExt(f) == SubSeq(f, Max(Positions(f, ".")) + 1, Len(f))

\* C1, as stated: a run over pairwise distinct well-formed files succeeds, and
\* every file has its output at <C>/<year>/<mm>/<dd>/<slug>.<ext> holding the
\* header, "== <name>" and the body.
C1_Original ==
    (/\ entry = "main" /\ Terminated /\ NoEnvFailure
     /\ \A f \in Files(dirEntries) : WellFormed(f)) =>
        /\ pc = "done"
        /\ \A f \in Files(dirEntries) :
              LET out == ExpectedPath(Split(cfgv.unit.category, "/"),
                                      FileDate(f), FileTitle(f), FileExt(f))
              IN  /\ out \in DOMAIN outFs
                  /\ \/ outFs[out] = ExpectedContents(FileTitle(f), bodies[f])
                     \/ \E g \in Files(dirEntries) : g # f /\
                           out = ExpectedPath(Split(cfgv.unit.category, "/"),
                                              FileDate(g), FileTitle(g), FileExt(g))

HasRepeat(ps) == \E i, j \in 1..Len(ps) : i # j /\ ps[i] = ps[j]

FilesMapReturnedOk == entry = "main" /\ pc \in {"construct", "rss", "entries", "print", "done"}
FilesMapReturnedErr ==
    entry = "main" /\ pc = "failed" /\ log # <<>>
        /\ log[Len(log)].ev \in {"parse_err", "dup_err"}

\* C2, as stated: files_map returns the duplicate error exactly when a key is
\* repeated, and accepts pairwise distinct well-formed paths with one entry
\* per path.
C2_Original ==
    /\ FilesMapReturnedErr => ((err = DupErr) <=> HasRepeat(paths))
    /\ FilesMapReturnedOk => (~HasRepeat(paths) /\ DOMAIN metaMap = Range(paths))
    /\ (FilesMapReturnedErr /\ ~HasRepeat(paths)) => \E i \in 1..Len(paths) : ~WellFormed(paths[i])

\* the components that follow the anchor, the leading dot-prefixed one skipped
after_content_without_author(comps, content_index) ==
    LET rest == SubSeq(comps, content_index + 1, Len(comps))
    IN  IF rest # <<>> /\ rest[1] # <<>> /\ rest[1][1] = "." THEN Tail(rest) ELSE rest

\* the lineage the claim describes: what follows the anchor, without a leading
\* dot-prefixed component
ClaimedLineage(p) ==
    LET comps == components(p)
    IN  after_content_without_author(comps, Min(Positions(comps, DotContent)))

\* C7, as stated: output root and category are the components after the
\* anchor with a leading dot-prefixed component left out; no anchor, the
\* missing-anchor error.
C7_Original ==
    (entry = "main" /\ pc # "cfg" /\ argv.some) =>
        IF Positions(components(argv.v), DotContent) = {}
        THEN ~cfgv.ok /\ cfgv.err = MissingAnchorErr
        ELSE cfgv.ok =>
                /\ cfgv.unit.output_content_root_path = Join(ClaimedLineage(argv.v), <<"/">>)
                /\ cfgv.unit.category = Join(ClaimedLineage(argv.v), <<"/">>)

-----------------------------------------------------------------------------
(* Calls of content_file_metadata on the files of a directory, under one   *)
(* output root, the records kept                                           *)

UnitsInit ==
    /\ entry = "content_file_metadata"
    /\ pc = "metadata"
    /\ argv \in {Some(a) : a \in ArgvChoices}
    /\ inputKind = "dir"
    /\ cfgv = cfg(argv, inputKind)
    /\ cfgv.ok
    /\ \E S \in SubsetsUpTo(WellFormedFiles \cup BadFiles, MaxMap) :
          /\ dirEntries = [f \in S |-> "file"]
          /\ todo = S
    /\ bodies = EmptyMap
    /\ metaMap = EmptyMap
    /\ paths = <<>>
    /\ RunStart
    /\ ParseIdle

\* content_file_metadata(&path, &cfg.output_content_root_path) for one more file
MetadataCall ==
    /\ pc = "metadata"
    /\ \E f \in todo :
          LET meta == content_file_metadata(f, cfgv.unit.output_content_root_path)
          IN  /\ metaMap' = IF meta.ok THEN Insert(metaMap, f, meta.unit) ELSE metaMap
              /\ todo' = todo \ {f}
              /\ log' = Append(log, Event(IF meta.ok THEN "parse" ELSE "parse_err", f))
    /\ UNCHANGED <<entry, pc, argv, inputKind, dirEntries, bodies, cfgv, paths, idx,
                   outFs, outDirs, content, feed, entries, stdout, err, parseVars>>

UnitsNext == MetadataCall

SpecUnits == UnitsInit /\ [][UnitsNext]_vars

Units == {metaMap[k] : k \in DOMAIN metaMap}

Front(s) == SubSeq(s, 1, Len(s) - 1)
Last(s) == s[Len(s)]

\* C8: every unit's path is join(categories, year, two-digit month, two-digit
\* day); units with equal categories and date have equal paths whatever their
\* name and extension; units whose dates differ only in the day have paths
\* that differ only in the last segment.
C8_PathFunction ==
    /\ \A u \in Units :
          u.path = Join(u.categories \o
                        <<NumToStr(u.date.year), Pad2(u.date.month), Pad2(u.date.day)>>,
                        <<"/">>)
    /\ \A u, w \in Units :
          /\ (u.categories = w.categories /\ u.date = w.date) => u.path = w.path
          /\ (/\ u.categories = w.categories
              /\ u.date.year = w.date.year /\ u.date.month = w.date.month
              /\ u.date.day # w.date.day) =>
                 /\ Front(Split(u.path, "/")) = Front(Split(w.path, "/"))
                 /\ Last(Split(u.path, "/")) # Last(Split(w.path, "/"))
                 /\ Last(Split(u.path, "/")) = Pad2(u.date.day)

\* content_file_metadata was called on two files of one date with different
\* names, and on two files whose dates differ in the day alone, in a one-digit
\* month
C8_Witness ==
    /\ entry = "content_file_metadata" /\ todo = {}
    /\ \E u, w \in Units : u.date = w.date /\ u.name # w.name
    /\ \E u, w \in Units : u.date.year = w.date.year /\ u.date.month = w.date.month
                              /\ u.date.day # w.date.day /\ u.date.month < 10

YearIndex == entries[1]

Count(seq, x) == Cardinality({i \in 1..Len(seq) : seq[i] = x})

KeyOf(u) == CHOOSE k \in DOMAIN metaMap : metaMap[k] = u

\* C6: entries_map puts every unit in exactly one group, the one keyed by the
\* year of its date, loses and duplicates none, and leaves each group sorted
\* by date, latest first, units of one date in their input (key) order.
C6_EntriesMap ==
    entries # <<>> =>
        /\ \A y \in DOMAIN YearIndex : \A i \in 1..Len(YearIndex[y]) :
              /\ YearIndex[y][i].date.year = y
              /\ YearIndex[y][i] \in Units
        /\ \A u \in Units :
              /\ u.date.year \in DOMAIN YearIndex
              /\ Count(YearIndex[u.date.year], u) = 1
        /\ \A y \in DOMAIN YearIndex : \A i, j \in 1..Len(YearIndex[y]) :
              i < j =>
                 /\ ~DateLess(YearIndex[y][i].date, YearIndex[y][j].date)
                 /\ YearIndex[y][i].date = YearIndex[y][j].date =>
                       StrLess(KeyOf(YearIndex[y][i]), KeyOf(YearIndex[y][j]))

\* the example of the claim: 2023-05-01, 2023-01-10 and 2022-12-31 were grouped
\* as {2023: [2023-05-01, 2023-01-10], 2022: [2022-12-31]}
C6_Witness ==
    /\ entries # <<>>
    /\ DOMAIN YearIndex = {2022, 2023}
    /\ [i \in 1..Len(YearIndex[2023]) |-> YearIndex[2023][i].date]
          = <<Date(2023, 5, 1), Date(2023, 1, 10)>>
    /\ [i \in 1..Len(YearIndex[2022]) |-> YearIndex[2022][i].date]
          = <<Date(2022, 12, 31)>>

IsFailure(e) == e.ev \in {"parse_err", "dup_err", "io_err"}

\* C9: no file is parsed after an output file was written; feed and index
\* come only after every file was parsed and written; a failing file is the
\* last one touched, the run is then over without feed and without index, and
\* the files written before it are still there.
C9_StagesAndAbort ==
    /\ \A i, j \in 1..Len(log) :
          (i < j /\ log[i].ev = "write") => log[j].ev \notin {"parse", "parse_err", "dup_err"}
    /\ \A j \in 1..Len(log) : log[j].ev \in {"feed", "print"} =>
          /\ \A f \in DOMAIN metaMap : \E i \in 1..(j - 1) : log[i] = Event("write", f)
          /\ DOMAIN metaMap = Files(dirEntries)
          /\ entry = "main" =>
                \A f \in Files(dirEntries) : \E i \in 1..(j - 1) : log[i] = Event("parse", f)
    /\ \A i \in 1..Len(log) : IsFailure(log[i]) => (i = Len(log) /\ pc = "failed")
    /\ pc = "failed" =>
          /\ feed = <<>> /\ stdout = <<>>
          /\ \A i \in 1..Len(log) : log[i].ev = "write" =>
                ContentDir \o content_file_output_path(metaMap[log[i].file]) \in DOMAIN outFs

\* a file failed after another was written, with a later file still to come
C9_Witness ==
    /\ pc = "failed"
    /\ \E i \in 1..Len(log) : log[i].ev = "write"
    /\ log[Len(log)].ev = "io_err"
    /\ Cardinality(todo) >= 2
    /\ outFs # EmptyMap

SameOutput(u, w) ==
    /\ u.date = w.date /\ u.file_ext = w.file_ext
    /\ u.filesystem_friendly_name = w.filesystem_friendly_name

Materialized == pc \in {"rss", "entries", "print", "done"}

\* C10: two files with one date, one extension and one slug are both
\* materialized without error and both returned as units; one output file
\* exists at their path and holds the contents of the file with the greater
\* key; feed and index each carry both entries.
C10_SlugCollision ==
    \A k1, k2 \in DOMAIN metaMap :
        (Materialized /\ StrLess(k1, k2) /\ SameOutput(metaMap[k1], metaMap[k2])) =>
            LET u1 == [meta |-> metaMap[k1],
                       contents |-> ExpectedContents(metaMap[k1].name, bodies[k1])]
                u2 == [meta |-> metaMap[k2],
                       contents |-> ExpectedContents(metaMap[k2].name, bodies[k2])]
                out == ContentDir \o content_file_output_path(metaMap[k2])
            IN  /\ err = ""
                /\ Count(content, u1) = 1 /\ Count(content, u2) = 1
                /\ Len(content) = Cardinality(DOMAIN metaMap)
                /\ out = ContentDir \o content_file_output_path(metaMap[k1])
                /\ outFs[out] = u2.contents
                /\ outFs[out] # u1.contents
                /\ Cardinality(DOMAIN outFs) < Cardinality(DOMAIN metaMap)
                /\ feed # <<>> =>
                      \E i, j \in 1..Len(feed[1]) :
                          /\ i # j /\ feed[1][i].link = feed[1][j].link
                          /\ feed[1][i].title = metaMap[k1].name
                          /\ feed[1][j].title = metaMap[k2].name
                /\ stdout # <<>> =>
                      \E i, j \in 1..Len(stdout[1]) :
                          /\ i # j
                          /\ stdout[1][i].kind = "entry" /\ stdout[1][j].kind = "entry"
                          /\ stdout[1][i].xref = stdout[1][j].xref
                          /\ stdout[1][i].name = metaMap[k1].name
                          /\ stdout[1][j].name = metaMap[k2].name

\* "My, Post!" and "My Post" of one date were materialized and the run is done
C10_Witness ==
    /\ pc = "done"
    /\ \E k1, k2 \in DOMAIN metaMap :
          /\ metaMap[k1].name = MyPostPunct /\ metaMap[k2].name = MyPost
          /\ SameOutput(metaMap[k1], metaMap[k2])

-----------------------------------------------------------------------------
(* A call of content_file_metadata, and of friendly_filename on its slug *)

SampleDates == {[year |-> 2023, month |-> 7, day |-> 4],
                [year |-> 2024, month |-> 2, day |-> 29]}

\* what a file name may start with: a date, a non-date (30 February), nothing
NamePrefixes ==
    {FormatDate(d) : d \in SampleDates}
        \cup {<<"2","0","2","3","-","0","2","-","3","0">>, <<>>}

RestAlphabet == {"_", ".", " ", "a", "B"}

SampleRoots == {<<"b","l","o","g">>, <<"b","l","o","g","/","t">>}

RunIdle ==
    /\ entry = "none" /\ pc = "idle" /\ argv = <<>> /\ inputKind = "dir"
    /\ dirEntries = EmptyMap /\ bodies = EmptyMap /\ cfgv = Err("") /\ paths = <<>>
    /\ idx = 0 /\ metaMap = EmptyMap /\ todo = {} /\ outFs = EmptyMap /\ outDirs = {}
    /\ content = <<>> /\ feed = <<>> /\ entries = <<>> /\ stdout = <<>>
    /\ err = "" /\ log = <<>>

ParseInit ==
    /\ RunIdle
    /\ ppc = "call"
    /\ fname \in {p \o r : p \in NamePrefixes, r \in StringsUpTo(RestAlphabet, MaxRest)}
    /\ fname \notin {<<>>, <<".">>, <<".", ".">>}
    /\ root \in SampleRoots
    /\ res = Err("")
    /\ slug2 = <<>>

\* the call content_file_metadata(&path, root)
ParseStep ==
    /\ ppc = "call"
    /\ res' = content_file_metadata(fname, root)
    /\ ppc' = "parsed"
    /\ UNCHANGED <<fname, root, slug2, runVars>>

\* friendly_filename applied to a slug it produced
Reslug ==
    /\ ppc = "parsed"
    /\ res.ok
    /\ slug2' = friendly_filename(res.unit.filesystem_friendly_name)
    /\ ppc' = "reslugged"
    /\ UNCHANGED <<fname, root, res, runVars>>

ParseNext == ParseStep \/ Reslug

SpecParse == ParseInit /\ [][ParseNext]_vars

-----------------------------------------------------------------------------
(* Claims about content_file_metadata and friendly_filename (SpecParse) *)

StemOf(f) == rsplit_file_at_dot(f)[1].v
HasExt(f) == rsplit_file_at_dot(f)[2].some
Underscores(f) == Cardinality(Positions(StemOf(f), "_"))
BeforeFirst(s, c) == SubSeq(s, 1, Min(Positions(s, c)) - 1)
AfterFirst(s, c) == SubSeq(s, Min(Positions(s, c)) + 1, Len(s))

\* C3, as stated: a stem with zero or with more than one '_' is rejected with
\* the malformed-filename error, and a record is produced only for exactly
\* one '_'.
C3_Original ==
    ppc # "call" =>
        /\ Underscores(fname) # 1 => (~res.ok /\ res.err = Malformed)
        /\ res.ok => Underscores(fname) = 1

\* C3, amended: a file name with an extension whose stem has no '_' is rejected
\* with the malformed-filename error (one without an extension, with the
\* filename error); a stem with one or more '_' is never
\* rejected with that error: it is split at the first '_', and a record is
\* produced exactly when the name has an extension, the stem has at least one
\* '_' and the part before the first '_' parses as a date.
C3_Amended ==
    ppc # "call" =>
        /\ ~HasExt(fname) => (~res.ok /\ res.err = FilenameErr)
        /\ (HasExt(fname) /\ Underscores(fname) = 0) => (~res.ok /\ res.err = Malformed)
        /\ (HasExt(fname) /\ Underscores(fname) >= 1) =>
              /\ res.ok <=> parse_from_str(BeforeFirst(StemOf(fname), "_")).ok
              /\ ~res.ok => res.err # Malformed
        /\ res.ok =>
              /\ HasExt(fname) /\ Underscores(fname) >= 1
              /\ res.unit.name = AfterFirst(StemOf(fname), "_")

\* a name whose stem has two or more '_' was parsed into a record
C3_Witness ==
    /\ ppc = "parsed" /\ res.ok
    /\ Underscores(fname) >= 2

\* C4: a file name built as <d>_<n>.<e> from a valid date d, a name n and an
\* extension e (a suffix without '.') parses to a record with date d, name n
\* verbatim and file_ext e; the split is at the first '_'.
C4_RoundTrip ==
    ppc # "call" =>
        \A d \in SampleDates, i \in Positions(fname, "_"), j \in Positions(fname, ".") :
            LET n == SubSeq(fname, i + 1, j - 1)
                e == SubSeq(fname, j + 1, Len(fname))
            IN  (i < j /\ SubSeq(fname, 1, i - 1) = FormatDate(d) /\ "." \notin Range(e)) =>
                    /\ res.ok
                    /\ res.unit.date = d
                    /\ res.unit.name = n
                    /\ res.unit.file_ext = e

\* a built name whose n itself holds '_' and ' ' was parsed into a record
C4_Witness ==
    /\ ppc = "parsed" /\ res.ok
    /\ res.unit.date \in SampleDates
    /\ "_" \in Range(res.unit.name) /\ " " \in Range(res.unit.name)
    /\ res.unit.file_ext # <<>>

NoUnderscore(s) == SelectSeq(s, LAMBDA c : c # "_")

\* C5, as stated: friendly_filename(friendly_filename(n)) = friendly_filename(n)
\* for every name n.
C5_Original ==
    ppc = "reslugged" => slug2 = res.unit.filesystem_friendly_name

\* C5, amended: friendly_filename(friendly_filename(n)) is friendly_filename(n)
\* with every '_' removed; the two are equal exactly when n holds no space.
C5_Amended ==
    ppc = "reslugged" =>
        /\ slug2 = NoUnderscore(res.unit.filesystem_friendly_name)
        /\ (slug2 = res.unit.filesystem_friendly_name) <=> (" " \notin Range(res.unit.name))

\* the slug of a name with a space and a letter was slugged again
C5_Witness ==
    /\ ppc = "reslugged"
    /\ " " \in Range(res.unit.name)
    /\ \E c \in Range(res.unit.name) : is_alphanumeric(c)

====
